---- MODULE Spec2Model ----
\* Paimon.moe local export -> UIGF v3 -> UIGF v4.1 conversion pipeline
\* (pm2uigf-pipeline.py) and the rank-override maintenance tool
\* (rank-mapping-tool.py).
\*
\* Python values are modelled as follows.
\*   str   : a sequence of one-character strings, <<"4","0","0">> for "400"
\*   int   : a natural number (the record-id counter, which exceeds 32 bits,
\*           is kept as its canonical decimal digit string)
\*   JSON  : a tagged record, JStr(s), JInt(n) or JNull
\*   dict  : a function whose DOMAIN is the set of keys present
EXTENDS Integers, Sequences, FiniteSets, TLC

VARIABLES
    pc,            \* position of main() / of the tool under study
    args,          \* main's parsed command line
    paimon_data,   \* the raw export document (--paimon)
    override_in,   \* rank_override_map loaded by load_rank_override
    api_results,   \* what fetch_apis_parallel returned: source name -> body
    todo_pulls,    \* <<gacha_type, pull>> still to be processed, in loop order
    synth_id,      \* the record-id counter of paimon_to_uigf_v3
    uigf_list,     \* the list being built by paimon_to_uigf_v3
    emitted,       \* per processed pull: the pull and whether a record was appended
    missing_rank,  \* the unresolved-items mapping
    uigf_v3,       \* the intermediate document handed to stage 2
    v4x,           \* the final document returned by uigf_v3_to_v4x
    written,       \* the output files written so far
    fn_in,         \* arguments of the function under study
    fn_out,        \* its result
    table,         \* rank-override.json "items" (rank-mapping-tool.py)
    batch,         \* rank-todo.json "items"
    tables,        \* the table after each cmd_merge run
    report,        \* per cmd_merge run: <<added_count, updated_count>>
    futures        \* fetch_apis_parallel's futures: source name -> state

vars == <<futures, pc, args, paimon_data, override_in, api_results, todo_pulls,
          synth_id, uigf_list, emitted, missing_rank, uigf_v3, v4x, written,
          fn_in, fn_out, table, batch, tables, report>>

-----------------------------------------------------------------------------
\* Characters and strings

Digits == <<"0","1","2","3","4","5","6","7","8","9">>
Uppers == <<"A","B","C","D","E","F","G","H","I","J","K","L","M",
            "N","O","P","Q","R","S","T","U","V","W","X","Y","Z">>
Lowers == <<"a","b","c","d","e","f","g","h","i","j","k","l","m",
            "n","o","p","q","r","s","t","u","v","w","x","y","z">>

\* The characters that take part in an ordering comparison, in code-point order.
Alphabet == <<" ", "-">> \o Digits \o <<":">> \o Uppers \o <<"_">> \o Lowers

Ord(c) == CHOOSE i \in DOMAIN Alphabet : Alphabet[i] = c

IsDigit(c) == \E i \in DOMAIN Digits : Digits[i] = c

DigitVal(c) == (CHOOSE i \in DOMAIN Digits : Digits[i] = c) - 1

Min(a, b) == IF a <= b THEN a ELSE b

\* Python's str < str: code-point lexicographic order.
StrLess(a, b) ==
    \E k \in 1..(Min(Len(a), Len(b)) + 1) :
        /\ \A i \in 1..(k - 1) : a[i] = b[i]
        /\ \/ k > Len(a) /\ k <= Len(b)
           \/ k <= Len(a) /\ k <= Len(b) /\ Ord(a[k]) < Ord(b[k])

\* str.lower() / str.upper() on one character.
LowerChar(c) ==
    IF \E i \in DOMAIN Uppers : Uppers[i] = c
    THEN Lowers[CHOOSE i \in DOMAIN Uppers : Uppers[i] = c] ELSE c

UpperChar(c) ==
    IF \E i \in DOMAIN Lowers : Lowers[i] = c
    THEN Uppers[CHOOSE i \in DOMAIN Lowers : Lowers[i] = c] ELSE c

Lower(s) == [i \in DOMAIN s |-> LowerChar(s[i])]

\* str.capitalize(): first character upper-cased, the rest lower-cased.
Capitalize(s) == [i \in DOMAIN s |-> IF i = 1 THEN UpperChar(s[i]) ELSE LowerChar(s[i])]

\* str.strip(): leading and trailing whitespace removed.
RECURSIVE Strip(_)
Strip(s) ==
    IF s = <<>> THEN s
    ELSE IF Head(s) = " " THEN Strip(Tail(s))
    ELSE IF s[Len(s)] = " " THEN Strip(SubSeq(s, 1, Len(s) - 1))
    ELSE s

\* re.sub(r"\s+", " ", s): every run of whitespace becomes one space.
RECURSIVE CollapseWs(_)
CollapseWs(s) ==
    IF Len(s) < 2 THEN s
    ELSE IF s[1] = " " /\ s[2] = " " THEN CollapseWs(Tail(s))
    ELSE <<s[1]>> \o CollapseWs(Tail(s))

\* s.replace("_", " ")
ReplaceUnderscore(s) == [i \in DOMAIN s |-> IF s[i] = "_" THEN " " ELSE s[i]]

\* str.startswith
StartsWith(s, p) == Len(s) >= Len(p) /\ SubSeq(s, 1, Len(p)) = p

\* str.isdigit(): non-empty and all characters digits.
IsDigitStr(s) == s # <<>> /\ \A i \in DOMAIN s : IsDigit(s[i])

\* str(n) for a non-negative int.
RECURSIVE IntStr(_)
IntStr(n) == IF n < 10 THEN <<Digits[n + 1]>> ELSE IntStr(n \div 10) \o <<Digits[(n % 10) + 1]>>

\* int(s) for a short digit string.
RECURSIVE StrInt(_)
StrInt(s) == IF s = <<>> THEN 0 ELSE 10 * StrInt(SubSeq(s, 1, Len(s) - 1)) + DigitVal(s[Len(s)])

\* str(int(s)) for a digit string of any length: leading zeros dropped.
RECURSIVE Canon(_)
Canon(s) == IF Len(s) > 1 /\ Head(s) = "0" THEN Canon(Tail(s)) ELSE s

\* str(int(s) + 1) on a canonical digit string: decimal increment with carry.
RECURSIVE Incr(_)
Incr(s) ==
    IF s = <<>> THEN <<"1">>
    ELSE IF s[Len(s)] = "9" THEN Incr(SubSeq(s, 1, Len(s) - 1)) \o <<"0">>
    ELSE SubSeq(s, 1, Len(s) - 1) \o <<Digits[DigitVal(s[Len(s)]) + 2]>>

-----------------------------------------------------------------------------
\* JSON values

JNull == [t |-> "null"]
JStr(s) == [t |-> "str", v |-> s]
JInt(n) == [t |-> "int", v |-> n]

\* str(x)
PyStr(x) ==
    IF x.t = "str" THEN x.v
    ELSE IF x.t = "int" THEN IntStr(x.v)
    ELSE <<"N","o","n","e">>

\* bool(x)
Truthy(x) ==
    IF x.t = "str" THEN x.v # <<>>
    ELSE IF x.t = "int" THEN x.v # 0
    ELSE FALSE

\* d.get(k, default)
Get(d, k, default) == IF k \in DOMAIN d THEN d[k] ELSE default

\* the empty dict
EmptyDict == [k \in {} |-> JNull]

-----------------------------------------------------------------------------
\* Utilities (pm2uigf-pipeline.py)

\* normalize_en_key: "" for a falsy argument, else underscores to spaces,
\* whitespace runs collapsed, stripped, lower-cased.
normalize_en_key(s) ==
    IF s = <<>> THEN <<>>
    ELSE Lower(Strip(CollapseWs(ReplaceUnderscore(s))))

\* str.split(): the whitespace-separated words of s.
RECURSIVE SplitWs(_, _)
SplitWs(s, word) ==
    IF s = <<>> THEN (IF word = <<>> THEN <<>> ELSE <<word>>)
    ELSE IF Head(s) = " "
         THEN (IF word = <<>> THEN <<>> ELSE <<word>>) \o SplitWs(Tail(s), <<>>)
         ELSE SplitWs(Tail(s), Append(word, Head(s)))

\* " ".join(words)
RECURSIVE JoinSp(_)
JoinSp(words) ==
    IF words = <<>> THEN <<>>
    ELSE IF Len(words) = 1 THEN words[1]
    ELSE words[1] \o <<" ">> \o JoinSp(Tail(words))

\* english_from_pmoe_id: the identifier's normalized key, each word capitalized.
english_from_pmoe_id(pmoe_id) ==
    LET norm == normalize_en_key(pmoe_id)
        words == SplitWs(norm, <<>>)
    IN IF norm = <<>> THEN <<>>
       ELSE JoinSp([i \in DOMAIN words |-> Capitalize(words[i])])

\* Days of a month, as datetime's constructor checks them.
DaysInMonth(y, m) ==
    IF m \in {4, 6, 9, 11} THEN 30
    ELSE IF m = 2
         THEN (IF (y % 4 = 0 /\ y % 100 # 0) \/ y % 400 = 0 THEN 29 ELSE 28)
         ELSE 31

\* The length of the run of digits of s that starts at position p, up to 3.
DigitRun(s, p) ==
    IF p > Len(s) \/ ~IsDigit(s[p]) THEN 0
    ELSE IF p + 1 > Len(s) \/ ~IsDigit(s[p + 1]) THEN 1
    ELSE IF p + 2 > Len(s) \/ ~IsDigit(s[p + 2]) THEN 2
    ELSE 3

\* The length of the run of blanks of s that starts at position p.
RECURSIVE BlankRun(_, _)
BlankRun(s, p) == IF p > Len(s) \/ s[p] # " " THEN 0 ELSE 1 + BlankRun(s, p + 1)

\* s[p] = c, FALSE past the end of s.
CharAt(s, p, c) == p <= Len(s) /\ s[p] = c

\* parse_time: TRUE iff datetime.strptime(s, "%Y-%m-%d %H:%M:%S") succeeds.
\* %Y is exactly four digits; %m %d %H %M %S are one or two digits, each run
\* of digits ending at its separator; the blank of the format matches one or
\* more blanks; the whole string must match; the fields must form a datetime.
parse_time(s) ==
    LET lm  == DigitRun(s, 6)
        pD  == 6 + lm + 1
        ld  == DigitRun(s, pD)
        pW  == pD + ld
        ws  == BlankRun(s, pW)
        pH  == pW + ws
        lh  == DigitRun(s, pH)
        pMi == pH + lh + 1
        lmi == DigitRun(s, pMi)
        pS  == pMi + lmi + 1
        ls  == DigitRun(s, pS)
        Y  == StrInt(SubSeq(s, 1, 4))
        M  == StrInt(SubSeq(s, 6, 6 + lm - 1))
        D  == StrInt(SubSeq(s, pD, pD + ld - 1))
        H  == StrInt(SubSeq(s, pH, pH + lh - 1))
        Mi == StrInt(SubSeq(s, pMi, pMi + lmi - 1))
        S  == StrInt(SubSeq(s, pS, pS + ls - 1))
    IN /\ Len(s) >= 5 /\ IsDigitStr(SubSeq(s, 1, 4)) /\ s[5] = "-"
       /\ lm \in 1..2 /\ CharAt(s, pD - 1, "-")
       /\ ld \in 1..2 /\ ws >= 1
       /\ lh \in 1..2 /\ CharAt(s, pMi - 1, ":")
       /\ lmi \in 1..2 /\ CharAt(s, pS - 1, ":")
       /\ ls \in 1..2 /\ Len(s) = pS + ls - 1
       /\ Y >= 1
       /\ M \in 1..12
       /\ D \in 1..DaysInMonth(Y, M)
       /\ H \in 0..23
       /\ Mi \in 0..59
       /\ S \in 0..59

-----------------------------------------------------------------------------
\* Reference data (pm2uigf-pipeline.py)

\* API_URLS: the source names, in submission order.
ApiKeys == <<"weapons_en", "weapons_ja", "characters_en", "characters_ja",
             "uigf_dict_en", "uigf_dict_ja", "genshin_words">>

\* The catalog sources, in the order build_pmoe_dict reads them.
CatalogKeys == <<"weapons_en", "weapons_ja", "characters_en", "characters_ja">>

\* lang = "en" if "en" in key else "jp"
LangOf(key) == IF key \in {"weapons_en", "characters_en"} THEN "en" ELSE "jp"

\* isinstance(x, dict): a JSON scalar carries its tag, a dict does not.
IsDict(x) == "t" \notin DOMAIN x

\* d[k] = v
Put(d, k, v) == [x \in (DOMAIN d) \cup {k} |-> IF x = k THEN v ELSE d[x]]

\* a or b
Or(a, b) == IF Truthy(a) THEN a ELSE b

\* One pass of build_pmoe_dict's inner loop body for one source's info:
\* a field is set only when its key is not yet in the entry.
merge_info(entry, info, lang) ==
    LET nk == IF lang = "en" THEN "name_en" ELSE "name_jp"
        e1 == IF "name" \in DOMAIN info /\ nk \notin DOMAIN entry
              THEN Put(entry, nk, info["name"]) ELSE entry
    IN IF "rarity" \in DOMAIN info /\ "rarity" \notin DOMAIN e1
       THEN Put(e1, "rarity", info["rarity"]) ELSE e1

\* The entry of one identifier after sources i..4 have been read.
RECURSIVE FoldCatalog(_, _, _, _)
FoldCatalog(api, pmoe_id, i, entry) ==
    IF i > Len(CatalogKeys) THEN entry
    ELSE LET data == Get(api, CatalogKeys[i], EmptyDict)
         IN IF pmoe_id \in DOMAIN data /\ IsDict(data[pmoe_id])
            THEN FoldCatalog(api, pmoe_id, i + 1,
                             merge_info(entry, data[pmoe_id], LangOf(CatalogKeys[i])))
            ELSE FoldCatalog(api, pmoe_id, i + 1, entry)

\* build_pmoe_dict: identifier -> entry, for every identifier some catalog
\* source maps to a dict.
build_pmoe_dict(api) ==
    LET ids == UNION { { x \in DOMAIN Get(api, CatalogKeys[i], EmptyDict) :
                            IsDict(Get(api, CatalogKeys[i], EmptyDict)[x]) }
                       : i \in DOMAIN CatalogKeys }
    IN [x \in ids |-> FoldCatalog(api, x, 1, EmptyDict)]

\* The key a word is stored under: the word itself, or its normalized form.
KeyOf(norm, s) == IF norm THEN normalize_en_key(s) ELSE s

\* The last word of gd_data that has "ja" and key field k equal to key.
LastWord(gd_data, k, key, norm) ==
    LET hits == { i \in DOMAIN gd_data :
                    /\ "ja" \in DOMAIN gd_data[i] /\ k \in DOMAIN gd_data[i]
                    /\ KeyOf(norm, gd_data[i][k]) = key }
    IN gd_data[CHOOSE i \in hits : \A j \in hits : j <= i]

\* One of build_genshin_words_maps's three maps: KeyOf(w[k]) -> w["ja"], later
\* words overwriting earlier ones; empty keys are left out when skipEmpty.
WordMap(gd_data, k, norm, skipEmpty) ==
    LET keys == { KeyOf(norm, gd_data[i][k]) :
                    i \in { j \in DOMAIN gd_data :
                              "ja" \in DOMAIN gd_data[j] /\ k \in DOMAIN gd_data[j] } }
    IN [key \in { x \in keys : ~skipEmpty \/ x # <<>> } |->
            LastWord(gd_data, k, key, norm)["ja"]]

\* build_genshin_words_maps; a body that is not a list (a failed fetch's {})
\* gives three empty maps.
build_genshin_words_maps(gd_data) ==
    [en_to_ja      |-> WordMap(gd_data, "en", FALSE, FALSE),
     en_to_ja_norm |-> WordMap(gd_data, "en", TRUE, TRUE),
     zh_to_ja      |-> WordMap(gd_data, "zhCN", FALSE, FALSE)]

\* map.get(key) on a str -> str map: the value, or None.
MapGet(map, key) == IF key \in DOMAIN map THEN JStr(map[key]) ELSE JNull

\* get_item_names_from_pmoe_id
get_item_names_from_pmoe_id(pmoe_id, pmoe_dict) ==
    LET data == Get(pmoe_dict, pmoe_id, EmptyDict)
    IN << Or(Get(data, "name_en", JNull), Get(data, "name", JStr(<<>>))),
          Get(data, "name_jp", JStr(<<>>)) >>

\* get_rank_from_pmoe_id
get_rank_from_pmoe_id(pmoe_id, pmoe_dict) ==
    LET r == Get(Get(pmoe_dict, pmoe_id, EmptyDict), "rarity", JNull)
    IN IF r.t \in {"int", "str"} THEN JStr(PyStr(r)) ELSE JNull

\* get_item_id_from_name: str(uigf_dict.get(name, 0))
get_item_id_from_name(name, uigf_dict) ==
    IF name \in DOMAIN uigf_dict THEN IntStr(uigf_dict[name]) ELSE IntStr(0)

-----------------------------------------------------------------------------
\* Name resolution and overrides (pm2uigf-pipeline.py)

\* The lookup of one candidate in resolve_item_name's loop:
\* en_to_ja.get(en_text) or en_to_ja_norm.get(normalize_en_key(en_text))
LookupJa(en_text, gd_maps) ==
    Or(MapGet(gd_maps.en_to_ja, en_text),
       MapGet(gd_maps.en_to_ja_norm, normalize_en_key(en_text)))

\* The loop over (item_name_en, derived_en, raw_name): a falsy candidate is
\* skipped; a lookup result is assigned even when falsy; the first truthy
\* result ends the loop.
RECURSIVE GuessJa(_, _, _, _)
GuessJa(cands, i, jp, gd_maps) ==
    IF i > Len(cands) THEN jp
    ELSE IF Truthy(cands[i])
         THEN LET r == LookupJa(cands[i].v, gd_maps)
              IN IF Truthy(r) THEN r ELSE GuessJa(cands, i + 1, r, gd_maps)
         ELSE GuessJa(cands, i + 1, jp, gd_maps)

\* resolve_item_name with the raw display name left out of the fallbacks.
resolve_item_name_no_raw(pmoe_id, raw_name, pmoe_dict, gd_maps, locale) ==
    LET names   == get_item_names_from_pmoe_id(pmoe_id, pmoe_dict)
        derived == english_from_pmoe_id(pmoe_id)
        en1 == IF ~Truthy(names[1]) THEN JStr(derived) ELSE names[1]
        jp1 == IF ~Truthy(names[2])
               THEN GuessJa(<<en1, JStr(derived), JStr(raw_name)>>, 1, names[2], gd_maps)
               ELSE names[2]
        jp2 == IF ~Truthy(names[2]) /\ ~Truthy(jp1) /\ raw_name # <<>>
               THEN MapGet(gd_maps.zh_to_ja, raw_name) ELSE jp1
    IN <<en1, jp2>>

\* resolve_item_name: <<item_name_en, item_name_jp>>
resolve_item_name(pmoe_id, raw_name, pmoe_dict, gd_maps, locale) ==
    LET names   == get_item_names_from_pmoe_id(pmoe_id, pmoe_dict)
        derived == english_from_pmoe_id(pmoe_id)
        en1 == IF ~Truthy(names[1]) THEN Or(JStr(derived), JStr(raw_name)) ELSE names[1]
        jp1 == IF ~Truthy(names[2])
               THEN GuessJa(<<en1, JStr(derived), JStr(raw_name)>>, 1, names[2], gd_maps)
               ELSE names[2]
        jp2 == IF ~Truthy(names[2]) /\ ~Truthy(jp1) /\ raw_name # <<>>
               THEN MapGet(gd_maps.zh_to_ja, raw_name) ELSE jp1
    IN IF ~Truthy(en1) /\ ~Truthy(jp2)
       THEN IF StartsWith(Lower(locale), <<"j","a">>)
            THEN <<en1, JStr(raw_name)>>
            ELSE <<JStr(raw_name), jp2>>
       ELSE <<en1, jp2>>

\* One field of apply_rank_override: a truthy override value replaces the
\* current one by its stripped text.
OverrideField(override, key, current) ==
    IF Truthy(Get(override, key, JNull))
    THEN JStr(Strip(PyStr(override[key]))) ELSE current

\* apply_rank_override: <<item_name_en, item_name_jp, rank_type>>
apply_rank_override(pmoe_id, item_name_en, item_name_jp, rank_type, override_map) ==
    IF pmoe_id \notin DOMAIN override_map \/ override_map[pmoe_id] = EmptyDict
    THEN <<item_name_en, item_name_jp, rank_type>>
    ELSE << OverrideField(override_map[pmoe_id], "name_en", item_name_en),
            OverrideField(override_map[pmoe_id], "name_jp", item_name_jp),
            OverrideField(override_map[pmoe_id], "rank_type", rank_type) >>

-----------------------------------------------------------------------------
\* Paimon -> UIGF v3 (pm2uigf-pipeline.py)

S_en    == <<"e","n">>
S_ja    == <<"j","a">>
S_en_us == <<"e","n","-","u","s">>
S_ja_jp == <<"j","a","-","j","p">>
S_0     == <<"0">>
S_1     == <<"1">>
S_301   == <<"3","0","1">>
S_400   == <<"4","0","0">>
S_weapon    == <<"w","e","a","p","o","n">>
S_character == <<"c","h","a","r","a","c","t","e","r">>
\* The Japanese item_type labels, one code point per character.
S_buki      == <<"U+6B66","U+5668">>
S_kyarakuta == <<"U+30AD","U+30E3","U+30E9","U+30AF","U+30BF","U+30FC">>

\* LANG_MAP
LANG_MAP == [k \in {S_ja, S_en} |-> IF k = S_ja THEN S_ja_jp ELSE S_en_us]

\* infer_lang_from_locale: LANG_MAP.get((locale or "en").lower(), "en-us")
infer_lang_from_locale(locale) ==
    LET k == Lower(IF locale = <<>> THEN S_en ELSE locale)
    IN IF k \in DOMAIN LANG_MAP THEN LANG_MAP[k] ELSE S_en_us

\* infer_timezone_from_uid with the two regions' offsets exchanged.
infer_timezone_from_uid_swapped(uid) ==
    IF uid # <<>> /\ uid[1] = "6" THEN 1
    ELSE IF uid # <<>> /\ uid[1] = "7" THEN -5
    ELSE 8

\* infer_timezone_from_uid
infer_timezone_from_uid(uid) ==
    IF uid # <<>> /\ uid[1] = "6" THEN -5
    ELSE IF uid # <<>> /\ uid[1] = "7" THEN 1
    ELSE 8

\* to_uigf_gacha_type without the remap.
to_uigf_gacha_type_same(gacha_type) == gacha_type

\* to_uigf_gacha_type
to_uigf_gacha_type(gacha_type) == IF gacha_type = S_400 THEN S_301 ELSE gacha_type

\* build_uigf_record's None
None == JNull

\* build_uigf_record, lines 229-251: the entry of a pull whose time parsed.
record_entry(pull, gacha_type, item_name_en, item_name_jp, item_id, rank_type, rec_id, lang) ==
    LET display_name == IF lang = S_ja_jp THEN item_name_jp
                        ELSE Or(item_name_en, item_name_jp)
        entry == [uigf_gacha_type |-> JStr(to_uigf_gacha_type(gacha_type)),
                  gacha_type      |-> JStr(gacha_type),
                  item_id         |-> JStr(item_id),
                  time            |-> JStr(PyStr(Get(pull, "time", JStr(<<>>)))),
                  id              |-> JStr(rec_id),
                  count           |-> JStr(S_1),
                  name            |-> Or(display_name,
                                         JStr(PyStr(Get(pull, "name", JStr(<<>>)))))]
        p_type == Lower(PyStr(Get(pull, "type", JStr(<<>>))))
        typed == IF p_type \in {S_weapon, S_character}
                 THEN Put(entry, "item_type",
                          IF Lower(lang) = S_ja_jp
                          THEN (IF p_type = S_weapon THEN JStr(S_buki)
                                ELSE JStr(S_kyarakuta))
                          ELSE JStr(Capitalize(p_type)))
                 ELSE entry
    IN IF Truthy(rank_type) THEN Put(typed, "rank_type", rank_type) ELSE typed

\* build_uigf_record with the bug of testing only that the time is present.
build_uigf_record_unparsed(pull, gacha_type, pmoe_id, item_name_en, item_name_jp, item_id, rank_type, rec_id, lang) ==
    IF PyStr(Get(pull, "time", JStr(<<>>))) = <<>> THEN None
    ELSE record_entry(pull, gacha_type, item_name_en, item_name_jp, item_id,
                      rank_type, rec_id, lang)

\* build_uigf_record: the v3 entry, or None when the pull's time is empty or
\* does not parse.
build_uigf_record(pull, gacha_type, pmoe_id, item_name_en, item_name_jp, item_id, rank_type, rec_id, lang) ==
    LET time_str == PyStr(Get(pull, "time", JStr(<<>>)))
    IN IF time_str = <<>> \/ ~parse_time(time_str) THEN None
       ELSE record_entry(pull, gacha_type, item_name_en, item_name_jp, item_id,
                         rank_type, rec_id, lang)

-----------------------------------------------------------------------------
\* UIGF v3 -> v4.x (pm2uigf-pipeline.py)

\* x < y between two JSON scalars of one type.
ValLess(x, y) == IF x.t = "str" THEN StrLess(x.v, y.v) ELSE x.v < y.v

\* (a.time, a.id) < (b.time, b.id): tuple comparison, decided by the first
\* position at which the tuples differ.
KeyLess(a, b) ==
    IF a["time"] # b["time"] THEN ValLess(a["time"], b["time"])
    ELSE IF a["id"] # b["id"] THEN ValLess(a["id"], b["id"])
    ELSE FALSE

\* list.sort raises TypeError when it has to order two different times that
\* are not both str or both int (ids are str at both stages).
SortRaises(list) ==
    \E i, j \in DOMAIN list :
        /\ list[i]["time"] # list[j]["time"]
        /\ ~(list[i]["time"].t = list[j]["time"].t /\ list[i]["time"].t \in {"str", "int"})

\* x placed behind every element of the sorted list that is not greater.
RECURSIVE InsertSorted(_, _)
InsertSorted(list, x) ==
    IF list = <<>> THEN <<x>>
    ELSE IF KeyLess(x, Head(list)) THEN <<x>> \o list
    ELSE <<Head(list)>> \o InsertSorted(Tail(list), x)

\* The sort left out: the list in the order it was built.
SortByTimeId_unsorted(list) == list

\* list.sort(key=lambda e: (e["time"], e["id"])): a stable sort.
RECURSIVE SortByTimeId(_)
SortByTimeId(list) ==
    IF list = <<>> THEN <<>>
    ELSE InsertSorted(SortByTimeId(SubSeq(list, 1, Len(list) - 1)), list[Len(list)])

\* The body of uigf_v3_to_v41's loop: the v4.1 entry of one v3 record, or None
\* when the record is skipped.
convert_record(r) ==
    LET gacha_type == PyStr(Get(r, "gacha_type", JStr(<<>>)))
        entry == [uigf_gacha_type |-> JStr(to_uigf_gacha_type(
                                        PyStr(Get(r, "uigf_gacha_type", JStr(gacha_type))))),
                  gacha_type      |-> JStr(gacha_type),
                  item_id         |-> JStr(PyStr(Get(r, "item_id", JStr(<<>>)))),
                  time            |-> r["time"],
                  id              |-> JStr(PyStr(r["id"])),
                  count           |-> JStr(PyStr(Get(r, "count", JStr(S_1))))]
        copied == { k \in {"name", "item_type", "rank_type"} :
                      k \in DOMAIN r /\ r[k] # JNull }
    IN IF gacha_type = <<>> \/ "time" \notin DOMAIN r \/ "id" \notin DOMAIN r
       THEN None
       ELSE [k \in (DOMAIN entry) \cup copied |->
               IF k \in copied THEN JStr(PyStr(r[k])) ELSE entry[k]]

\* The unsorted list_v41: the entries of the records that are not skipped.
RECURSIVE ConvertList(_)
ConvertList(list_v3) ==
    IF list_v3 = <<>> THEN <<>>
    ELSE LET e == convert_record(Head(list_v3))
         IN (IF e = None THEN <<>> ELSE <<e>>) \o ConvertList(Tail(list_v3))

\* uigf_v3_to_v41, for a document whose list can be sorted.
uigf_v3_to_v41(doc, version) ==
    LET info_v3 == Get(doc, "info", EmptyDict)
        list_v3 == Get(doc, "list", <<>>)
    IN [info |-> [export_app         |-> Get(info_v3, "export_app", JNull),
                  export_app_version |-> Get(info_v3, "export_app_version", JNull),
                  version            |-> version],
        hk4e |-> << [uid      |-> Get(info_v3, "uid", JStr(S_0)),
                     timezone |-> Get(info_v3, "region_time_zone", JInt(8)),
                     lang     |-> Get(info_v3, "lang", JStr(S_en_us)),
                     list     |-> SortByTimeId(ConvertList(list_v3))] >>]

-----------------------------------------------------------------------------
\* Inputs of the conversion: sample strings, reference data, exports

S_mika  == <<"m","i","k","a">>
S_Mika  == <<"M","i","k","a">>
S_bow   == <<"b","o","w">>
S_Bow   == <<"B","o","w">>
S_x_y   == <<"x","_","y">>
S_Xy    == <<"X","y">>
S_4     == <<"4">>
S_5     == <<"5">>
S_v41   == <<"v","4",".","1">>
S_v50   == <<"v","5",".","0">>
\* "ミカ" and "弓", one code point per character
S_mika_ja == <<"U+30DF","U+30AB">>
S_bow_ja  == <<"U+5F13">>

\* "2024-01-01 00:00:00"
T_jan1 == <<"2","0","2","4","-","0","1","-","0","1"," ","0","0",":","0","0",":","0","0">>
\* "2024-01-02 00:00:00"
T_jan2 == <<"2","0","2","4","-","0","1","-","0","2"," ","0","0",":","0","0",":","0","0">>
\* "2024-02-30 00:00:00": no such day
T_feb30 == <<"2","0","2","4","-","0","2","-","3","0"," ","0","0",":","0","0",":","0","0">>

\* What each source's URL serves when the fetch succeeds.
SourceData(key) ==
    CASE key = "weapons_en"    -> (S_bow :> [name |-> JStr(S_Bow), rarity |-> JInt(4)])
      [] key = "weapons_ja"    -> (S_bow :> [name |-> JStr(S_bow_ja)])
      [] key = "characters_en" -> (S_mika :> [name |-> JStr(S_Mika), rarity |-> JInt(4)])
      [] key = "characters_ja" -> (S_mika :> [name |-> JStr(S_mika_ja)])
      [] key = "uigf_dict_en"  -> (S_Mika :> 10000080) @@ (S_Bow :> 15101) @@ (S_Xy :> 15102)
      [] key = "uigf_dict_ja"  -> (S_mika_ja :> 10000080) @@ (S_bow_ja :> 15101)
      [] key = "genshin_words" -> << [en |-> S_Xy, ja |-> S_bow_ja] >>

\* The largest number of sources that fail in one run, unless all of them do.
MaxFailed == 1

\* The bodies fetch_apis_parallel can return: per source, the served body, or
\* {} when fetch_json caught a failure.
FetchOutcomes ==
    LET keys == { ApiKeys[i] : i \in DOMAIN ApiKeys }
    IN { [k \in keys |-> IF k \in ok THEN SourceData(k) ELSE EmptyDict] :
           ok \in { o \in SUBSET keys : o = {} \/ Cardinality(keys \ o) <= MaxFailed } }

\* GACHA_BANNER_TYPES
GACHA_BANNER_TYPES ==
    << <<"wish-counter-beginners",       <<"1","0","0">> >>,
       <<"wish-counter-character-event", <<"3","0","1">> >>,
       <<"wish-counter-weapon-event",    <<"3","0","2">> >>,
       <<"wish-counter-standard",        <<"2","0","0">> >>,
       <<"wish-counter-chronicled",      <<"5","0","0">> >> >>

\* Sample pulls, each with the banner key it is exported under.
PullSamples ==
    { [banner |-> "wish-counter-standard",
       pull |-> [id |-> JStr(S_mika), name |-> JStr(S_Mika),
                 type |-> JStr(S_character), time |-> JStr(T_jan1)]],
      [banner |-> "wish-counter-weapon-event",
       pull |-> [id |-> JStr(S_bow), name |-> JStr(S_Bow),
                 type |-> JStr(S_weapon), time |-> JStr(T_jan2)]],
      [banner |-> "wish-counter-character-event",
       pull |-> [id |-> JStr(S_x_y), name |-> JStr(S_Xy), time |-> JStr(T_jan1)]],
      [banner |-> "wish-counter-standard",
       pull |-> [id |-> JStr(S_mika), name |-> JStr(S_Mika), type |-> JStr(S_character)]],
      [banner |-> "wish-counter-weapon-event",
       pull |-> [id |-> JStr(S_bow), name |-> JStr(S_Bow),
                 type |-> JStr(S_weapon), time |-> JStr(T_feb30)]],
      [banner |-> "wish-counter-chronicled",
       pull |-> [id |-> JStr(S_bow), name |-> JStr(S_Bow), time |-> JNull]] }

\* The largest number of pulls in an export.
MaxPulls == 2

RECURSIVE SeqsUpTo(_, _)
SeqsUpTo(S, n) ==
    IF n = 0 THEN { <<>> }
    ELSE SeqsUpTo(S, n - 1) \cup
         { Append(q, x) : q \in { r \in SeqsUpTo(S, n - 1) : Len(r) = n - 1 }, x \in S }

\* The pulls of `samples` exported under banner key `key`, in their order.
RECURSIVE BannerPulls(_, _)
BannerPulls(samples, key) ==
    IF samples = <<>> THEN <<>>
    ELSE (IF Head(samples).banner = key THEN <<Head(samples).pull>> ELSE <<>>)
         \o BannerPulls(Tail(samples), key)

\* An export document: the account fields plus one counter per banner key that
\* has pulls.
Export(account, samples) ==
    LET keys == { samples[i].banner : i \in DOMAIN samples }
    IN [k \in (DOMAIN account) \cup keys |->
          IF k \in keys THEN [pulls |-> BannerPulls(samples, k)] ELSE account[k]]

\* "700000001", "600000001", "u1"
S_uid7 == <<"7","0","0","0","0","0","0","0","1">>
S_uid6 == <<"6","0","0","0","0","0","0","0","1">>
S_uidx == <<"u","1">>

\* The runs of main() with --paimon: account fields of the export, the loaded
\* rank-override.json and --target-version.
PaimonRuns ==
    { [account  |-> ("wish-uid" :> JStr(S_uid7)) @@ ("locale" :> JStr(S_ja)),
       override |-> EmptyDict,
       version  |-> S_v41],
      [account  |-> EmptyDict,
       override |-> (S_x_y :> [pmoe_id |-> JStr(S_x_y), rank_type |-> JStr(S_4)]),
       version  |-> S_v41],
      [account  |-> ("uid" :> JStr(S_uidx)) @@ ("locale" :> JStr(S_en)),
       override |-> EmptyDict,
       version  |-> S_v41],
      [account  |-> ("uid" :> JInt(600000001)) @@ ("locale" :> JStr(<<"J","A">>)),
       override |-> EmptyDict,
       version  |-> S_v50] }

\* int(datetime.now().timestamp()) at the time of the run: "1762380000" or
\* "1799999999".
NowSeeds ==
    { <<"1","7","6","2","3","8","0","0","0","0">>,
      <<"1","7","9","9","9","9","9","9","9","9">> }

\* Sample records of an existing UIGF v3 document (--from-v3).
V3Samples ==
    { [uigf_gacha_type |-> JStr(S_301), gacha_type |-> JStr(S_400),
       item_id |-> JStr(S_5), time |-> JStr(T_jan1), id |-> JStr(<<"1","2">>),
       count |-> JStr(S_1), name |-> JStr(S_Mika), rank_type |-> JStr(S_4)],
      [gacha_type |-> JInt(400), time |-> JStr(T_jan2), id |-> JInt(9)],
      [uigf_gacha_type |-> JStr(<<"2","0","0">>), gacha_type |-> JStr(<<"2","0","0">>),
       time |-> JStr(T_jan1), id |-> JStr(<<"1","0","0">>), name |-> JNull],
      [gacha_type |-> JStr(S_301), time |-> JStr(T_jan1)],
      [gacha_type |-> JStr(<<>>), time |-> JStr(T_jan2), id |-> JStr(S_4)],
      [gacha_type |-> JStr(<<"3","0","2">>), time |-> JNull, id |-> JStr(S_5)] }

\* The largest number of records in a --from-v3 document.
MaxV3 == 3

V3Info == [uid |-> JStr(S_uid7), lang |-> JStr(S_ja_jp), region_time_zone |-> JInt(1),
           export_app |-> JStr(<<"a">>), export_app_version |-> JStr(S_1)]

NoDoc == [none |-> TRUE]

-----------------------------------------------------------------------------
\* main() of pm2uigf-pipeline.py

\* uid, locale, lang of paimon_to_uigf_v3's "basic information"
Uid(data) ==
    PyStr(Or(Get(data, "wish-uid", JNull), Or(Get(data, "uid", JNull), JStr(S_0))))

Locale(data) == Or(Get(data, "locale", JNull), JStr(S_en)).v

\* <<gacha_type, pull>> for every pull, in the order of the two nested loops.
RECURSIVE AllPulls(_, _)
AllPulls(data, i) ==
    IF i > Len(GACHA_BANNER_TYPES) THEN <<>>
    ELSE LET key == GACHA_BANNER_TYPES[i][1]
             pulls == IF key \in DOMAIN data THEN data[key].pulls ELSE <<>>
         IN [j \in DOMAIN pulls |-> <<GACHA_BANNER_TYPES[i][2], pulls[j]>>]
            \o AllPulls(data, i + 1)

\* uigf_dict = api_results.get("uigf_dict", {})
UigfDict(api) == Get(api, "uigf_dict", EmptyDict)

\* gd_maps = build_genshin_words_maps(api_results.get("genshin_words", []))
GdMaps(api) == build_genshin_words_maps(Get(api, "genshin_words", <<>>))

Idle ==
    /\ fn_in = NoDoc /\ fn_out = NoDoc /\ futures = EmptyDict
    /\ table = <<>> /\ batch = <<>> /\ tables = <<>> /\ report = <<>>

Init ==
    /\ pc = "start"
    /\ \/ \E run \in PaimonRuns, samples \in SeqsUpTo(PullSamples, MaxPulls) :
            /\ args = [paimon |-> TRUE, from_v3 |-> FALSE, target_version |-> run.version]
            /\ paimon_data = Export(run.account, samples)
            /\ override_in = run.override
            /\ uigf_v3 = NoDoc
       \/ \E list \in SeqsUpTo(V3Samples, MaxV3), version \in {S_v41, S_v50} :
            /\ args = [paimon |-> FALSE, from_v3 |-> TRUE, target_version |-> version]
            /\ paimon_data = NoDoc
            /\ override_in = EmptyDict
            /\ uigf_v3 = [info |-> V3Info, list |-> list]
       \/ \E both \in BOOLEAN :
            /\ args = [paimon |-> both, from_v3 |-> both, target_version |-> S_v41]
            /\ paimon_data = NoDoc
            /\ override_in = EmptyDict
            /\ uigf_v3 = NoDoc
    /\ api_results = EmptyDict
    /\ todo_pulls = <<>>
    /\ synth_id = <<>>
    /\ uigf_list = <<>>
    /\ emitted = <<>>
    /\ missing_rank = EmptyDict
    /\ v4x = NoDoc
    /\ written = {}
    /\ Idle

\* main, lines 476-483: the mode check; SystemExit unless exactly one of
\* --paimon and --from-v3 is given.
CheckMode ==
    /\ pc = "start"
    /\ pc' = IF args.paimon = args.from_v3 THEN "exit"
             ELSE IF args.paimon THEN "fetch" ELSE "stage2"
    /\ UNCHANGED <<futures, args, paimon_data, override_in, api_results, todo_pulls, synth_id,
                   uigf_list, emitted, missing_rank, uigf_v3, v4x, written,
                   fn_in, fn_out, table, batch, tables, report>>

\* paimon_to_uigf_v3, lines 265-284: the reference data is fetched and the
\* record-id counter is seeded.
Fetch ==
    /\ pc = "fetch"
    /\ api_results' \in FetchOutcomes
    /\ synth_id' \in IF IsDigitStr(Uid(paimon_data))
                     THEN { Canon(Uid(paimon_data) \o <<"0","0","0","0","0","0">>) }
                     ELSE NowSeeds
    /\ todo_pulls' = AllPulls(paimon_data, 1)
    /\ pc' = "pulls"
    /\ UNCHANGED <<futures, args, paimon_data, override_in, uigf_list, emitted, missing_rank,
                   uigf_v3, v4x, written, fn_in, fn_out, table, batch, tables, report>>

\* paimon_to_uigf_v3, lines 292-326: one iteration of the loop over the pulls.
ProcessPull ==
    /\ pc = "pulls" /\ todo_pulls # <<>>
    /\ LET gacha_type == Head(todo_pulls)[1]
           p        == Head(todo_pulls)[2]
           pmoe_id  == PyStr(Get(p, "id", JStr(<<>>)))
           raw_name == PyStr(Get(p, "name", JStr(<<>>)))
           pmoe_dict == build_pmoe_dict(api_results)
           uigf_dict == UigfDict(api_results)
           names == resolve_item_name(pmoe_id, raw_name, pmoe_dict, GdMaps(api_results),
                                      Locale(paimon_data))
           id1 == get_item_id_from_name(names[1].v, uigf_dict)
           item_id == IF id1 = S_0 /\ raw_name # <<>>
                      THEN get_item_id_from_name(raw_name, uigf_dict) ELSE id1
           ov == apply_rank_override(pmoe_id, names[1], names[2],
                                     get_rank_from_pmoe_id(pmoe_id, pmoe_dict), override_in)
           rec_id == Incr(synth_id)
           entry == build_uigf_record(p, gacha_type, pmoe_id, ov[1], ov[2], item_id, ov[3],
                                      rec_id, infer_lang_from_locale(Locale(paimon_data)))
       IN /\ synth_id' = rec_id
          /\ uigf_list' = IF entry # None THEN Append(uigf_list, entry) ELSE uigf_list
          /\ emitted' = Append(emitted, [pull |-> p, gacha_type |-> gacha_type,
                                         name_en |-> names[1], raw_name |-> raw_name,
                                         rec_id |-> rec_id, entry |-> entry])
          /\ missing_rank' = IF ~Truthy(ov[3])
                             THEN Put(missing_rank, pmoe_id,
                                      [name_en |-> ov[1], name_jp |-> ov[2],
                                       gacha_type |-> gacha_type])
                             ELSE missing_rank
    /\ todo_pulls' = Tail(todo_pulls)
    /\ UNCHANGED <<futures, pc, args, paimon_data, override_in, api_results, uigf_v3, v4x, written,
                   fn_in, fn_out, table, batch, tables, report>>

\* paimon_to_uigf_v3, lines 328-344, and main, lines 497-500: the list is
\* sorted, the v3 document is returned and written, and a non-empty
\* missing_rank is written.
FinishV3 ==
    /\ pc = "pulls" /\ todo_pulls = <<>>
    /\ uigf_v3' = [info |-> [uid |-> JStr(Uid(paimon_data)),
                             lang |-> JStr(infer_lang_from_locale(Locale(paimon_data))),
                             export_app |-> JStr(<<"P","M","O","E">>),
                             export_app_version |-> JStr(<<"1",".","0",".","0">>),
                             uigf_version |-> JStr(<<"v","3",".","0">>),
                             region_time_zone |->
                                 JInt(infer_timezone_from_uid(Uid(paimon_data)))],
                   list |-> SortByTimeId(uigf_list)]
    /\ written' = written \cup {"v3_out"}
                  \cup (IF missing_rank # EmptyDict THEN {"missing_rank_out"} ELSE {})
    /\ pc' = "stage2"
    /\ UNCHANGED <<futures, args, paimon_data, override_in, api_results, todo_pulls, synth_id,
                   uigf_list, emitted, missing_rank, v4x, fn_in, fn_out,
                   table, batch, tables, report>>

\* uigf_v3_to_v4x and main, lines 507-508: ValueError for a target version that
\* does not start with "v4.1", TypeError from the sort, else the final document
\* is returned and written.
Stage2 ==
    /\ pc = "stage2"
    /\ IF ~StartsWith(args.target_version, S_v41)
          \/ SortRaises(ConvertList(Get(uigf_v3, "list", <<>>)))
       THEN /\ pc' = "raised"
            /\ UNCHANGED <<v4x, written>>
       ELSE /\ v4x' = uigf_v3_to_v41(uigf_v3, args.target_version)
            /\ written' = written \cup {"output_v41"}
            /\ pc' = "done"
    /\ UNCHANGED <<futures, args, paimon_data, override_in, api_results, todo_pulls, synth_id,
                   uigf_list, emitted, missing_rank, uigf_v3, fn_in, fn_out,
                   table, batch, tables, report>>

Next == CheckMode \/ Fetch \/ ProcessPull \/ FinishV3 \/ Stage2

Spec == Init /\ [][Next]_vars

-----------------------------------------------------------------------------
\* Properties of the conversion

\* The pull's time is a string that parses as "YYYY-MM-DD HH:MM:SS".
TimeParses(p) == "time" \in DOMAIN p /\ p["time"].t = "str" /\ parse_time(p["time"].v)

\* paimon_to_uigf_v3 has returned (the run was started with --paimon).
V3Returned == args.paimon /\ pc \in {"stage2", "done", "raised"}

\* C1: stage 1 appends exactly one record for a pull whose time parses and
\* none for a pull whose time is missing or does not parse; no pull aborts the
\* run, so every pull is processed and the returned list has as many records
\* as the export has pulls with a valid time.
C1_OneRecordPerValidPull ==
    /\ \A i \in DOMAIN emitted :
          (emitted[i].entry # None) <=> TimeParses(emitted[i].pull)
    /\ Len(uigf_list) =
          Cardinality({ i \in DOMAIN emitted : TimeParses(emitted[i].pull) })
    /\ V3Returned =>
          /\ Len(emitted) = Len(AllPulls(paimon_data, 1))
          /\ Len(uigf_v3.list) =
                Cardinality({ i \in DOMAIN AllPulls(paimon_data, 1) :
                                TimeParses(AllPulls(paimon_data, 1)[i][2]) })

\* C1 witness: stage 1 has returned after a pull with a valid time and a pull
\* with an unparseable time, one record in the list.
C1_Witness ==
    /\ V3Returned
    /\ Len(emitted) = 2
    /\ \E i, j \in DOMAIN emitted :
          /\ emitted[i].entry # None
          /\ emitted[j].entry = None /\ "time" \in DOMAIN emitted[j].pull
    /\ Len(uigf_v3.list) = 1

\* a.time < b.time, or a.time == b.time and a.id <= b.id (strings compared
\* lexicographically).
InOrder(a, b) ==
    \/ /\ a["time"].t = "str" /\ b["time"].t = "str"
       /\ StrLess(a["time"].v, b["time"].v)
    \/ /\ a["time"] = b["time"]
       /\ (a["id"].v = b["id"].v \/ StrLess(a["id"].v, b["id"].v))

Sorted(list) == \A i \in 1..(Len(list) - 1) : InOrder(list[i], list[i + 1])

\* C2: every adjacent pair of the list returned by paimon_to_uigf_v3, and of
\* the list returned by uigf_v3_to_v41, is in (time, id) order.
C2_SortInvariant ==
    /\ V3Returned => Sorted(uigf_v3.list)
    /\ pc = "done" => Sorted(v4x.hk4e[1].list)

\* C2 witness: stage 2 has returned a list of two records, having dropped a
\* third, in an order other than the input's.
C2_Witness ==
    /\ pc = "done" /\ args.from_v3
    /\ Len(uigf_v3.list) = 3
    /\ Len(v4x.hk4e[1].list) = 2
    /\ v4x.hk4e[1].list # ConvertList(uigf_v3.list)

\* The canonical-name-to-numeric-ID data the run fetched.
FetchedIds == api_results["uigf_dict_en"]

\* C8: a record's item_id is the numeric ID the fetched reference data gives
\* for the resolved English name or, failing that, for the non-empty raw
\* display name; it is "0" only when the data has neither name.
C8_ItemIdResolved ==
    \A i \in DOMAIN emitted :
        LET e == emitted[i] IN
        (pc # "start" /\ pc # "fetch" /\ e.entry # None) =>
            e.entry["item_id"].v =
                IF e.name_en.v \in DOMAIN FetchedIds
                THEN IntStr(FetchedIds[e.name_en.v])
                ELSE IF e.raw_name # <<>> /\ e.raw_name \in DOMAIN FetchedIds
                     THEN IntStr(FetchedIds[e.raw_name])
                     ELSE S_0

\* The export of the end-to-end scenario: uid "700000001", locale "ja", one
\* pull (mika, Mika, character, 2024-01-01 00:00:00) under wish-counter-standard.
C9_Scenario ==
    /\ args.paimon /\ ~args.from_v3
    /\ paimon_data =
          [k \in {"wish-uid", "locale", "wish-counter-standard"} |->
             IF k = "wish-uid" THEN JStr(S_uid7)
             ELSE IF k = "locale" THEN JStr(S_ja)
             ELSE [pulls |-> << [id |-> JStr(S_mika), name |-> JStr(S_Mika),
                                 type |-> JStr(S_character), time |-> JStr(T_jan1)] >>]]

\* What the scenario's final document has apart from the record id: timezone
\* 1, lang "ja-jp", one record with gacha_type and uigf_gacha_type "200".
C9_Container ==
    /\ v4x.hk4e[1].timezone = JInt(1)
    /\ v4x.hk4e[1].lang = JStr(S_ja_jp)
    /\ Len(v4x.hk4e[1].list) = 1
    /\ v4x.hk4e[1].list[1]["gacha_type"] = JStr(<<"2","0","0">>)
    /\ v4x.hk4e[1].list[1]["uigf_gacha_type"] = JStr(<<"2","0","0">>)

\* C9 as stated: the record id is a 16-digit string starting with
\* "700000001000000".
C9_Original ==
    (C9_Scenario /\ pc = "done") =>
        /\ C9_Container
        /\ Len(v4x.hk4e[1].list[1]["id"].v) = 16
        /\ IsDigitStr(v4x.hk4e[1].list[1]["id"].v)
        /\ StartsWith(v4x.hk4e[1].list[1]["id"].v,
                      S_uid7 \o <<"0","0","0","0","0","0">>)

\* C9 amended: the record id is the 15-digit string "700000001000001", the
\* uid followed by six digits that hold the sequence number 1.
C9_EndToEnd ==
    (C9_Scenario /\ pc = "done") =>
        /\ C9_Container
        /\ v4x.hk4e[1].list[1]["id"].v = S_uid7 \o <<"0","0","0","0","0","1">>
        /\ Len(v4x.hk4e[1].list[1]["id"].v) = 15

\* C9 witness: the scenario's run has written its final document.
C9_Witness == C9_Scenario /\ pc = "done" /\ "output_v41" \in written

-----------------------------------------------------------------------------
\* The pure functions, called on their own

S_Foo    == <<"F","o","o">>
S_Bar    == <<"B","a","r">>
S_X_Y    == <<"X"," ","Y">>
S_XY     == <<"X","Y">>
S_blank  == <<" ">>
\* "フー", and four more Japanese names, one code point per character
S_foo_ja == <<"U+30D5","U+30FC">>
S_ja2    == <<"U+4E8C">>
S_ja3    == <<"U+4E09">>
S_ja4    == <<"U+56DB">>
S_ja5    == <<"U+4E94">>

\* Words of the dictionary: an exact match for a catalog name, for the name
\* derived from "x_y", a word whose normalized key is that of the derived
\* name, an exact match for a raw name (whose normalized key is also that of
\* the raw name "XY"), and a secondary-language word.
AllWords ==
    << [en |-> S_Mika, ja |-> S_mika_ja],
       [en |-> S_X_Y, ja |-> S_ja2],
       [en |-> S_x_y, ja |-> S_ja3],
       [en |-> S_Xy, ja |-> S_ja4],
       [zhCN |-> S_Xy, ja |-> S_ja5] >>

\* The sub-list of `words` at the positions in `keep`.
RECURSIVE SubList(_, _, _)
SubList(words, keep, i) ==
    IF i > Len(words) THEN <<>>
    ELSE (IF i \in keep THEN <<words[i]>> ELSE <<>>) \o SubList(words, keep, i + 1)

\* A dict with the keys of `keys`, valued by `val`.
Dict(keys, val) == [k \in keys |-> val[k]]

\* Arguments of resolve_item_name.
ResolveInputs ==
    { [fn |-> "resolve_item_name", pmoe_id |-> id, raw_name |-> raw,
       pmoe_dict |-> cat, gd_maps |-> build_genshin_words_maps(SubList(AllWords, keep, 1)),
       locale |-> loc] :
        id \in {<<>>, S_mika, S_x_y},
        raw \in {<<>>, S_Mika, S_Xy, S_XY, S_blank},
        cat \in {EmptyDict} \cup
                { (S_mika :> Dict(ks, [name_en |-> en, name_jp |-> JStr(S_mika_ja)])) :
                    ks \in SUBSET {"name_en", "name_jp"},
                    en \in {JStr(<<>>), JStr(S_Mika)} },
        keep \in SUBSET (DOMAIN AllWords),
        loc \in {S_ja, S_en, <<"J","A">>} }

\* Arguments of apply_rank_override.
OverrideInputs ==
    { [fn |-> "apply_rank_override", pmoe_id |-> S_x_y,
       item_name_en |-> en, item_name_jp |-> jp, rank_type |-> rank,
       override_map |-> map] :
        en \in {JStr(S_Foo), JStr(<<>>)},
        jp \in {JStr(S_foo_ja), JNull},
        rank \in {JStr(S_4), JNull},
        map \in {EmptyDict, (S_mika :> [pmoe_id |-> JStr(S_mika), rank_type |-> JStr(S_5)])}
                \cup { (S_x_y :> Dict({"pmoe_id"} \cup ks,
                                     [pmoe_id |-> JStr(S_x_y), name_en |-> oen,
                                      name_jp |-> JStr(S_blank), rank_type |-> ork])) :
                         ks \in SUBSET {"name_en", "name_jp", "rank_type"},
                         oen \in {JStr(<<>>), JStr(S_blank), JStr(S_Bar),
                                  JStr(<<" ">> \o S_Bar \o <<" ">>)},
                         ork \in {JStr(S_5), JStr(S_blank), JInt(5), JNull} } }

\* What one catalog source can hold for the identifier "x_y": nothing, or an
\* info with an empty or a source-specific name and rarity.
InfoOptions(key) ==
    LET nm == CASE key = "weapons_en"    -> <<"W","e">>
                [] key = "weapons_ja"    -> <<"W","j">>
                [] key = "characters_en" -> <<"C","e">>
                [] key = "characters_ja" -> <<"C","j">>
        rr == CASE key = "weapons_en"    -> 1
                [] key = "weapons_ja"    -> 2
                [] key = "characters_en" -> 3
                [] key = "characters_ja" -> 4
    IN { EmptyDict,
         (S_x_y :> [name |-> JStr(<<>>)]),
         (S_x_y :> [name |-> JStr(nm)]),
         (S_x_y :> [name |-> JStr(nm), rarity |-> JInt(rr)]),
         (S_x_y :> [name |-> JStr(<<>>), rarity |-> JStr(<<>>)]) }

\* Arguments of build_pmoe_dict.
BuildDictInputs ==
    { [fn |-> "build_pmoe_dict",
       api_results |-> [k \in {"weapons_en", "weapons_ja", "characters_en",
                               "characters_ja"} |->
                          IF k = "weapons_en" THEN a ELSE IF k = "weapons_ja" THEN b
                          ELSE IF k = "characters_en" THEN c ELSE d]] :
        a \in InfoOptions("weapons_en"), b \in InfoOptions("weapons_ja"),
        c \in InfoOptions("characters_en"), d \in InfoOptions("characters_ja") }

\* Arguments of build_uigf_record.
BuildRecordInputs ==
    { [fn |-> "build_uigf_record", pull |-> s.pull, gacha_type |-> g, lang |-> lang,
       rank_type |-> rank] :
        s \in PullSamples, g \in {S_400, S_301, <<"2","0","0">>},
        lang \in {S_ja_jp, S_en_us}, rank \in {JStr(S_4), JNull} }

\* Arguments of uigf_v3_to_v41.
ConvertInputs ==
    { [fn |-> "uigf_v3_to_v41", doc |-> [info |-> V3Info, list |-> list]] :
        list \in SeqsUpTo(V3Samples, MaxV3) }

PipelineIdle ==
    /\ args = NoDoc /\ paimon_data = NoDoc /\ override_in = EmptyDict
    /\ api_results = EmptyDict /\ todo_pulls = <<>> /\ synth_id = <<>>
    /\ uigf_list = <<>> /\ emitted = <<>> /\ missing_rank = EmptyDict
    /\ uigf_v3 = NoDoc /\ v4x = NoDoc /\ written = {} /\ futures = EmptyDict

InitFn ==
    /\ pc = "call"
    /\ fn_in \in ResolveInputs \cup OverrideInputs \cup BuildDictInputs
                 \cup BuildRecordInputs \cup ConvertInputs
    /\ fn_out = NoDoc
    /\ PipelineIdle
    /\ table = <<>> /\ batch = <<>> /\ tables = <<>> /\ report = <<>>

Return(result) ==
    /\ fn_out' = result
    /\ pc' = "returned"
    /\ UNCHANGED <<futures, args, paimon_data, override_in, api_results, todo_pulls, synth_id,
                   uigf_list, emitted, missing_rank, uigf_v3, v4x, written,
                   fn_in, table, batch, tables, report>>

CallResolve ==
    /\ pc = "call" /\ fn_in.fn = "resolve_item_name"
    /\ Return(resolve_item_name(fn_in.pmoe_id, fn_in.raw_name, fn_in.pmoe_dict,
                                fn_in.gd_maps, fn_in.locale))

CallOverride ==
    /\ pc = "call" /\ fn_in.fn = "apply_rank_override"
    /\ Return(apply_rank_override(fn_in.pmoe_id, fn_in.item_name_en, fn_in.item_name_jp,
                                  fn_in.rank_type, fn_in.override_map))

CallBuildDict ==
    /\ pc = "call" /\ fn_in.fn = "build_pmoe_dict"
    /\ Return(build_pmoe_dict(fn_in.api_results))

CallBuildRecord ==
    /\ pc = "call" /\ fn_in.fn = "build_uigf_record"
    /\ Return(build_uigf_record(fn_in.pull, fn_in.gacha_type,
                                PyStr(Get(fn_in.pull, "id", JStr(<<>>))),
                                JStr(S_Mika), JStr(S_mika_ja), S_0, fn_in.rank_type,
                                S_1, fn_in.lang))

\* uigf_v3_to_v41 raises TypeError when its sort does.
CallConvert ==
    /\ pc = "call" /\ fn_in.fn = "uigf_v3_to_v41"
    /\ Return(IF SortRaises(ConvertList(fn_in.doc.list)) THEN [raised |-> "TypeError"]
              ELSE uigf_v3_to_v41(fn_in.doc, S_v41))

NextFn == CallResolve \/ CallOverride \/ CallBuildDict \/ CallBuildRecord \/ CallConvert

SpecFn == InitFn /\ [][NextFn]_vars

Returned(fn) == pc = "returned" /\ fn_in.fn = fn

-----------------------------------------------------------------------------
\* Properties of the pure functions

\* The text an override value supplies: its string form, trimmed; nothing
\* for null.
OverrideText(x) == IF x = JNull THEN <<>> ELSE Strip(PyStr(x))

\* The field the claim expects: the trimmed override value when the entry
\* has a value that is non-empty after trimming, else the current value.
ExpectedField(key, current) ==
    LET map == fn_in.override_map
    IN IF /\ fn_in.pmoe_id \in DOMAIN map
          /\ key \in DOMAIN map[fn_in.pmoe_id]
          /\ OverrideText(map[fn_in.pmoe_id][key]) # <<>>
       THEN JStr(OverrideText(map[fn_in.pmoe_id][key]))
       ELSE current

\* C3: apply_rank_override replaces each of the three fields only by an
\* override value that is non-empty after trimming and keeps it otherwise, so
\* no field that was non-empty becomes empty, and without an entry the triple
\* is returned unchanged.
C3_OverrideNeverClears ==
    Returned("apply_rank_override") =>
        /\ fn_out[1] = ExpectedField("name_en", fn_in.item_name_en)
        /\ fn_out[2] = ExpectedField("name_jp", fn_in.item_name_jp)
        /\ fn_out[3] = ExpectedField("rank_type", fn_in.rank_type)
        /\ Truthy(fn_in.item_name_en) => Truthy(fn_out[1])
        /\ Truthy(fn_in.item_name_jp) => Truthy(fn_out[2])
        /\ Truthy(fn_in.rank_type) => Truthy(fn_out[3])

\* C4: resolve_item_name does not return both names empty when the raw
\* display name is non-empty.
C4_NeverNameless ==
    (Returned("resolve_item_name") /\ fn_in.raw_name # <<>>) =>
        (Truthy(fn_out[1]) \/ Truthy(fn_out[2]))

\* C4 witness: no identifier, no catalog entry and no dictionary word, and the
\* raw display name came back as the English name.
C4_Witness ==
    /\ Returned("resolve_item_name")
    /\ fn_in.pmoe_id = <<>> /\ fn_in.raw_name = S_Xy
    /\ fn_in.pmoe_dict = EmptyDict
    /\ fn_in.gd_maps = build_genshin_words_maps(<<>>)
    /\ fn_out = <<JStr(S_Xy), JNull>>

\* The remap as the claims state it: "400" becomes "301", any other code is
\* unchanged.
Remapped(code) == IF code = <<"4","0","0">> THEN <<"3","0","1">> ELSE code

\* The raw and the primary banner-type code of a v3 record, as strings.
RawCode(r) == PyStr(r["gacha_type"])
PrimaryCode(r) == IF "uigf_gacha_type" \in DOMAIN r THEN PyStr(r["uigf_gacha_type"])
                  ELSE RawCode(r)

\* The v3 records of the input that final record e can come from.
SourcesOf(e) ==
    { i \in DOMAIN fn_in.doc.list :
        LET r == fn_in.doc.list[i]
        IN /\ {"gacha_type", "time", "id"} \subseteq DOMAIN r
           /\ PyStr(r["id"]) = e["id"].v /\ r["time"] = e["time"] }

\* Stage 1 of C5: build_uigf_record gives code "400" the uigf_gacha_type "301"
\* and the gacha_type "400", and leaves every other code unchanged in both.
C5_Stage1 ==
    (Returned("build_uigf_record") /\ fn_out # None) =>
        /\ fn_out["gacha_type"] = JStr(fn_in.gacha_type)
        /\ fn_out["uigf_gacha_type"] = JStr(Remapped(fn_in.gacha_type))

Supplied(api, x, field) ==
    LET srcKey == IF field = "rarity" THEN "rarity" ELSE "name"
        order == <<"weapons_en", "weapons_ja", "characters_en", "characters_ja">>
        from(k) == /\ field = "name_en" => k \in {"weapons_en", "characters_en"}
                   /\ field = "name_jp" => k \in {"weapons_ja", "characters_ja"}
                   /\ x \in DOMAIN api[k] /\ srcKey \in DOMAIN api[k][x]
    IN [i \in 1..4 |-> IF from(order[i]) THEN api[order[i]][x][srcKey] ELSE JNull]

\* C10: each field of a build_pmoe_dict entry is the first non-empty value a
\* source supplies in the fixed order; an earlier empty value does not block
\* a later non-empty one.
C10_FirstNonEmptyWins ==
    Returned("build_pmoe_dict") =>
        \A field \in {"name_en", "name_jp", "rarity"} :
            LET vals == Supplied(fn_in.api_results, S_x_y, field)
                hits == { i \in DOMAIN vals : Truthy(vals[i]) }
            IN hits # {} =>
                 /\ S_x_y \in DOMAIN fn_out
                 /\ field \in DOMAIN fn_out[S_x_y]
                 /\ fn_out[S_x_y][field] = vals[CHOOSE i \in hits : \A j \in hits : i <= j]
-----------------------------------------------------------------------------
\* Override table maintenance (rank-mapping-tool.py)

\* merge_override_entry without the blank-rank early return.
merge_override_entry_upsert_blank(new_item, existing_entry) ==
    [pmoe_id    |-> Get(new_item, "pmoe_id", JNull),
     name_en    |-> Get(new_item, "name_en", Get(existing_entry, "name_en", JNull)),
     name_jp    |-> Get(new_item, "name_jp", Get(existing_entry, "name_jp", JNull)),
     gacha_type |-> Get(new_item, "gacha_type", Get(existing_entry, "gacha_type", JNull)),
     rank_type  |-> JStr(PyStr(Get(new_item, "rank_type", JNull)))]

\* merge_override_entry
merge_override_entry(new_item, existing_entry) ==
    LET rank_type == Get(new_item, "rank_type", JNull)
    IN IF rank_type = JNull \/ Strip(PyStr(rank_type)) = <<>>
       THEN existing_entry
       ELSE [pmoe_id    |-> Get(new_item, "pmoe_id", JNull),
             name_en    |-> Get(new_item, "name_en", Get(existing_entry, "name_en", JNull)),
             name_jp    |-> Get(new_item, "name_jp", Get(existing_entry, "name_jp", JNull)),
             gacha_type |-> Get(new_item, "gacha_type", Get(existing_entry, "gacha_type", JNull)),
             rank_type  |-> JStr(PyStr(rank_type))]

\* The loop body of cmd_merge with the store of the merged entry left out.
merge_step_not_stored(st, todo_item) ==
    LET pmoe_id == Get(todo_item, "pmoe_id", JNull)
        merged  == merge_override_entry(todo_item, Get(st.override_map, pmoe_id.v, EmptyDict))
    IN IF ~Truthy(pmoe_id) THEN st
       ELSE IF ~Truthy(Get(merged, "rank_type", JNull)) THEN st
       ELSE IF pmoe_id.v \in DOMAIN st.override_map
            THEN [st EXCEPT !.updated_count = @ + 1]
            ELSE [st EXCEPT !.added_count = @ + 1]

\* The loop body of cmd_merge for one batch entry: st is the override_map
\* with the two counters.
merge_step(st, todo_item) ==
    LET pmoe_id == Get(todo_item, "pmoe_id", JNull)
        merged  == merge_override_entry(todo_item, Get(st.override_map, pmoe_id.v, EmptyDict))
    IN IF ~Truthy(pmoe_id) THEN st
       ELSE IF ~Truthy(Get(merged, "rank_type", JNull)) THEN st
       ELSE IF pmoe_id.v \in DOMAIN st.override_map
            THEN [st EXCEPT !.updated_count = @ + 1,
                            !.override_map = Put(st.override_map, pmoe_id.v, merged)]
            ELSE [st EXCEPT !.added_count = @ + 1,
                            !.override_map = Put(st.override_map, pmoe_id.v, merged)]

\* The loop of cmd_merge over the batch.
RECURSIVE merge_loop(_, _)
merge_loop(st, todo_items) ==
    IF todo_items = <<>> THEN st
    ELSE merge_loop(merge_step(st, Head(todo_items)), Tail(todo_items))

\* The table as a dict keyed by pmoe_id; an item without one is left out and
\* a later item replaces an earlier one of the same identifier.
RECURSIVE index_by_pmoe_id(_, _)
index_by_pmoe_id(m, override_items) ==
    IF override_items = <<>> THEN m
    ELSE LET it == Head(override_items)
             id == Get(it, "pmoe_id", JNull)
         IN index_by_pmoe_id(IF Truthy(id) THEN Put(m, id.v, it) ELSE m,
                             Tail(override_items))

\* sorted(keys)
RECURSIVE sorted(_)
sorted(keys) ==
    IF keys = {} THEN <<>>
    ELSE LET least == CHOOSE k \in keys : \A j \in keys \ {k} : StrLess(k, j)
         IN <<least>> \o sorted(keys \ {least})

\* The result of cmd_merge: the new table and the two counts it reports.
merge(override_items, todo_items) ==
    LET st == merge_loop([override_map |-> index_by_pmoe_id(EmptyDict, override_items),
                          added_count |-> 0, updated_count |-> 0], todo_items)
        order == sorted(DOMAIN st.override_map)
    IN [items |-> [i \in DOMAIN order |-> st.override_map[order[i]]],
        added |-> st.added_count, updated |-> st.updated_count]

\* What the table can hold for an identifier: an entry as init writes it
\* (empty rank, to be filled in by hand) or a curated one.
TableEntries(id) ==
    { [pmoe_id |-> JStr(id), name_en |-> JStr(S_Foo), name_jp |-> JNull,
       gacha_type |-> JStr(S_301), rank_type |-> JStr(<<>>)],
      [pmoe_id |-> JStr(id), name_en |-> JStr(S_Foo), rank_type |-> JStr(S_4),
       note |-> JStr(S_Bar)] }

\* The override tables: at most one entry per identifier, in either order.
Tables ==
    { <<>> }
    \cup { <<e>> : e \in TableEntries(S_x_y) \cup TableEntries(S_mika) }
    \cup { <<a, b>> : a \in TableEntries(S_x_y), b \in TableEntries(S_mika) }
    \cup { <<b, a>> : a \in TableEntries(S_x_y), b \in TableEntries(S_mika) }

\* The entries of a curator-edited batch: an identifier, with or without a
\* new English name, the rank absent, empty, blank or filled in; and one
\* entry that lost its identifier.
BatchEntries ==
    { Dict({"pmoe_id"} \cup names \cup ranks,
           [pmoe_id |-> JStr(id), name_en |-> JStr(S_Bar), rank_type |-> rank]) :
        id \in {S_x_y, S_mika}, names \in {{}, {"name_en"}},
        ranks \in {{}, {"rank_type"}},
        rank \in {JStr(<<>>), JStr(S_blank), JStr(S_5)} }
    \cup { [rank_type |-> JStr(S_5)] }

MaxBatch == 2
MaxRuns == 2

\* The table file and the batch file as they are before the first merge.
InitMerge ==
    /\ pc = "merge"
    /\ table \in Tables
    /\ batch \in SeqsUpTo(BatchEntries, MaxBatch)
    /\ tables = <<table>>
    /\ report = <<>>
    /\ PipelineIdle
    /\ fn_in = NoDoc /\ fn_out = NoDoc

\* cmd_merge: one run of the merge command on the table and the batch; the
\* saved table and the reported counts are recorded per run.
cmd_merge ==
    /\ pc = "merge"
    /\ Len(report) < MaxRuns
    /\ LET result == merge(table, batch)
       IN /\ table' = result.items
          /\ tables' = Append(tables, result.items)
          /\ report' = Append(report, [added |-> result.added, updated |-> result.updated])
    /\ UNCHANGED <<futures, pc, args, paimon_data, override_in, api_results, todo_pulls,
                   synth_id, uigf_list, emitted, missing_rank, uigf_v3, v4x,
                   written, fn_in, fn_out, batch>>

NextMerge == cmd_merge

SpecMerge == InitMerge /\ [][NextMerge]_vars

-----------------------------------------------------------------------------
\* Properties of the merge

\* A batch entry that names its identifier.
HasId(e) == Truthy(Get(e, "pmoe_id", JNull))

\* A batch entry whose rank is absent, empty or whitespace only.
BlankRank(e) ==
    \/ "rank_type" \notin DOMAIN e
    \/ e["rank_type"] = JNull
    \/ \A i \in DOMAIN PyStr(e["rank_type"]) : PyStr(e["rank_type"])[i] = " "

\* The entries a table holds for an identifier.
EntriesOf(items, id) ==
    { items[i] : i \in { j \in DOMAIN items : Get(items[j], "pmoe_id", JNull) = JStr(id) } }

\* C6: when every entry of the batch has an identifier and a non-empty rank,
\* the second merge of the same batch leaves the table of the first merge and
\* reports 0 added and as many updated as the batch has entries.
C6_MergeIdempotent ==
    (/\ Len(tables) >= 3
     /\ \A i \in DOMAIN batch : HasId(batch[i]) /\ ~BlankRank(batch[i]))
    => /\ tables[3] = tables[2]
       /\ report[2] = [added |-> 0, updated |-> Len(batch)]

\* C6 witness: a batch of two ranked entries merged twice: the first merge
\* added one entry and updated one and changed the table, and the second
\* reported 0 added, 2 updated.
C6_Witness ==
    /\ Len(tables) >= 3
    /\ Len(batch) = 2
    /\ \A i \in DOMAIN batch : HasId(batch[i]) /\ ~BlankRank(batch[i])
    /\ report[1] = [added |-> 1, updated |-> 1]
    /\ report[2] = [added |-> 0, updated |-> 2]
    /\ tables[2] # tables[1]

\* C7: an identifier that the batch names only in entries with an absent,
\* empty or whitespace-only rank has the same table entry before and after
\* every merge, and none after if it had none before.
C7_BlankRankIgnored ==
    \A k \in 1..Len(report) :
        \A id \in {S_x_y, S_mika} :
            LET named == { i \in DOMAIN batch : Get(batch[i], "pmoe_id", JNull) = JStr(id) }
            IN (named # {} /\ \A i \in named : BlankRank(batch[i]))
               => EntriesOf(tables[k + 1], id) = EntriesOf(tables[k], id)

\* C7 witness: the batch has a whitespace-only rank for the curated "x_y" and
\* no rank for the unknown "mika"; after the merge the table is the same.
C7_Witness ==
    /\ Len(tables) >= 2
    /\ batch = << [pmoe_id |-> JStr(S_x_y), name_en |-> JStr(S_Bar), rank_type |-> JStr(S_blank)],
                  [pmoe_id |-> JStr(S_mika)] >>
    /\ EntriesOf(tables[1], S_x_y) # {} /\ EntriesOf(tables[1], S_mika) = {}
    /\ \E e \in EntriesOf(tables[1], S_x_y) : e["rank_type"] = JStr(S_4)
    /\ tables[2] = tables[1]

-----------------------------------------------------------------------------
\* Properties of stage 2's filter

\* A JSON value that is a non-empty string.
NonEmptyStr(x) == x # JNull /\ x.t = "str" /\ x.v # <<>>

\* C11: every record of the final list uigf_v3_to_v41 returns has a non-empty
\* gacha_type, a non-empty time and a non-empty id, also when the v3 record
\* carries the key with an empty or null value.
C11_FinalRecordsComplete ==
    (Returned("uigf_v3_to_v41") /\ "hk4e" \in DOMAIN fn_out) =>
        \A k \in DOMAIN fn_out.hk4e[1].list :
            LET e == fn_out.hk4e[1].list[k]
            IN /\ NonEmptyStr(e["gacha_type"])
               /\ NonEmptyStr(e["time"])
               /\ NonEmptyStr(e["id"])

-----------------------------------------------------------------------------
\* The reference-data fetch batch (pm2uigf-pipeline.py, fetch_apis_parallel)

\* ThreadPoolExecutor(max_workers=6)
max_workers == 6

\* The source names of API_URLS.
SourceNames == { ApiKeys[i] : i \in DOMAIN ApiKeys }

\* fetch_json with the failure passed on to the caller instead of caught.
fetch_json_uncaught(key, ok) ==
    IF ok THEN [raised |-> FALSE, value |-> SourceData(key)]
    ELSE [raised |-> TRUE, value |-> EmptyDict]

\* The outcome of fetch_json for the URL of source `key`: it returns the
\* served body, or {} when the request, the status check or the JSON decoding
\* raised; no exception leaves it.
fetch_json(key, ok) ==
    [raised |-> FALSE, value |-> IF ok THEN SourceData(key) ELSE EmptyDict]

\* The futures in a given state.
InState(st) == { k \in SourceNames : futures[k].state = st }

\* fetch_apis_parallel has submitted one fetch_json per source; no worker has
\* started and results is empty.
InitFetch ==
    /\ pc = "as_completed"
    /\ futures = [k \in SourceNames |-> [state |-> "pending"]]
    /\ api_results = EmptyDict
    /\ args = NoDoc /\ paimon_data = NoDoc /\ override_in = EmptyDict
    /\ todo_pulls = <<>> /\ synth_id = <<>>
    /\ uigf_list = <<>> /\ emitted = <<>> /\ missing_rank = EmptyDict
    /\ uigf_v3 = NoDoc /\ v4x = NoDoc /\ written = {}
    /\ fn_in = NoDoc /\ fn_out = NoDoc
    /\ table = <<>> /\ batch = <<>> /\ tables = <<>> /\ report = <<>>

\* A free worker of the pool takes the oldest submitted call that has not
\* started.
WorkerStart ==
    /\ pc = "as_completed"
    /\ Cardinality(InState("running")) < max_workers
    /\ \E i \in DOMAIN ApiKeys :
          /\ futures[ApiKeys[i]].state = "pending"
          /\ \A j \in 1..(i - 1) : futures[ApiKeys[j]].state # "pending"
          /\ futures' = [futures EXCEPT ![ApiKeys[i]] = [state |-> "running"]]
    /\ UNCHANGED <<pc, args, paimon_data, override_in, api_results, todo_pulls,
                   synth_id, uigf_list, emitted, missing_rank, uigf_v3, v4x,
                   written, fn_in, fn_out, table, batch, tables, report>>

\* A worker's fetch_json call returns: the request succeeded or failed, and
\* the future holds what fetch_json returned.
WorkerFinish ==
    /\ pc = "as_completed"
    /\ \E key \in InState("running"), ok \in BOOLEAN :
          futures' = [futures EXCEPT ![key] =
                        [state |-> "done", ok |-> ok, result |-> fetch_json(key, ok)]]
    /\ UNCHANGED <<pc, args, paimon_data, override_in, api_results, todo_pulls,
                   synth_id, uigf_list, emitted, missing_rank, uigf_v3, v4x,
                   written, fn_in, fn_out, table, batch, tables, report>>

\* One iteration of the as_completed loop, in the main thread: a finished
\* future is taken and its result stored under its source name;
\* future.result() raises what the call raised.
Collect ==
    /\ pc = "as_completed"
    /\ \E key \in InState("done") :
          LET result == futures[key].result
          IN /\ futures' = [futures EXCEPT ![key].state = "collected"]
             /\ IF result.raised
                THEN pc' = "raised" /\ UNCHANGED api_results
                ELSE pc' = pc /\ api_results' = Put(api_results, key, result.value)
    /\ UNCHANGED <<args, paimon_data, override_in, todo_pulls,
                   synth_id, uigf_list, emitted, missing_rank, uigf_v3, v4x,
                   written, fn_in, fn_out, table, batch, tables, report>>

\* as_completed is exhausted and fetch_apis_parallel returns results.
FetchReturn ==
    /\ pc = "as_completed"
    /\ InState("collected") = SourceNames
    /\ pc' = "fetched"
    /\ UNCHANGED <<futures, args, paimon_data, override_in, api_results, todo_pulls,
                   synth_id, uigf_list, emitted, missing_rank, uigf_v3, v4x,
                   written, fn_in, fn_out, table, batch, tables, report>>

NextFetch == WorkerStart \/ WorkerFinish \/ Collect \/ FetchReturn

\* Every submitted call is run by the pool and every request ends (it has a
\* timeout), and the main thread takes each finished future.
SpecFetch == InitFetch /\ [][NextFetch]_vars /\ WF_vars(NextFetch)

\* The result the batch owes for the sources that failed: one slot per source
\* name, the served body for a source that answered, {} for one that failed.
ExpectedResults ==
    [k \in SourceNames |-> IF futures[k].ok THEN SourceData(k) ELSE EmptyDict]

\* C12: whichever sources fail and in whichever order the fetches complete,
\* fetch_apis_parallel returns and never raises, and what it returns has one
\* slot per source name, empty for a failed source, and is determined by the
\* set of failed sources alone, so the catalog built from it is too.
C12_FetchBatch ==
    /\ <>(pc = "fetched")
    /\ [](pc # "raised")
    /\ [](pc = "fetched" =>
            /\ api_results = ExpectedResults
            /\ build_pmoe_dict(api_results) = build_pmoe_dict(ExpectedResults))

\* C12 witness: the batch has returned with the first source failed, the
\* second served and the last one failed; the failed slots are empty.
C12_Witness ==
    /\ pc = "fetched"
    /\ ~futures["weapons_en"].ok /\ futures["weapons_ja"].ok
    /\ ~futures["genshin_words"].ok
    /\ api_results["weapons_en"] = EmptyDict
    /\ api_results["weapons_ja"] = SourceData("weapons_ja")
    /\ DOMAIN api_results = SourceNames

-----------------------------------------------------------------------------
\* Properties of main()'s configuration errors

\* The command line is in error: both or neither input mode, or a target
\* version uigf_v3_to_v4x does not support.
ConfigurationError ==
    /\ args # NoDoc
    /\ \/ args.paimon = args.from_v3
       \/ ~StartsWith(args.target_version, S_v41)

\* C13: a run whose command line is in error fetches no reference data,
\* converts no record and writes no output file.
C13_ConfigErrorAbortsFirst ==
    ConfigurationError =>
        /\ api_results = EmptyDict
        /\ emitted = <<>> /\ uigf_list = <<>>
        /\ v4x = NoDoc
        /\ written = {}

-----------------------------------------------------------------------------
\* Properties of the localized-name fallback

\* A non-empty candidate has an exact match in the translation table.
ExactHit(cand) ==
    cand # <<>> /\ Truthy(MapGet(fn_in.gd_maps.en_to_ja, cand))

\* A non-empty candidate has a match in the normalized-key table.
NormHit(cand) ==
    cand # <<>> /\ Truthy(MapGet(fn_in.gd_maps.en_to_ja_norm, normalize_en_key(cand)))

\* C14, for a call with a non-empty raw display name that is neither the
\* resolved English name nor the identifier-derived name: when the catalog has
\* no localized name, no candidate has an exact match and neither English
\* candidate has a normalized-key match, the localized name is what the
\* secondary-language table holds for the raw name (none if it holds nothing):
\* the normalized-key table is not consulted with the raw name.
C14_NormalizedKeyNotForRawName ==
    LET en      == fn_out[1].v
        derived == english_from_pmoe_id(fn_in.pmoe_id)
        raw     == fn_in.raw_name
    IN (/\ Returned("resolve_item_name")
        /\ raw # <<>> /\ Truthy(fn_out[1]) /\ en # raw /\ derived # raw
        /\ ~Truthy(get_item_names_from_pmoe_id(fn_in.pmoe_id, fn_in.pmoe_dict)[2])
        /\ ~ExactHit(en) /\ ~ExactHit(derived) /\ ~ExactHit(raw)
        /\ ~NormHit(en) /\ ~NormHit(derived))
       => fn_out[2] = MapGet(fn_in.gd_maps.zh_to_ja, raw)

-----------------------------------------------------------------------------
\* main() on exports whose pulls share one timestamp

\* The largest number of pulls of such an export.
MaxSame == 10

\* The pulls that are repeated: a character of the standard banner and an
\* item of the character-event banner, both drawn at T_jan1.
SameTimeSamples ==
    { sample \in PullSamples :
        "time" \in DOMAIN sample.pull /\ sample.pull["time"] = JStr(T_jan1) }

\* main() is started with --paimon on an export of up to MaxSame pulls with the
\* same timestamp, for each of the accounts of PaimonRuns.
InitSame ==
    /\ pc = "start"
    /\ \E run \in PaimonRuns, sample \in SameTimeSamples, n \in 0..MaxSame :
          /\ args = [paimon |-> TRUE, from_v3 |-> FALSE, target_version |-> run.version]
          /\ paimon_data = Export(run.account, [i \in 1..n |-> sample])
          /\ override_in = run.override
    /\ uigf_v3 = NoDoc
    /\ api_results = EmptyDict
    /\ todo_pulls = <<>>
    /\ synth_id = <<>>
    /\ uigf_list = <<>>
    /\ emitted = <<>>
    /\ missing_rank = EmptyDict
    /\ v4x = NoDoc
    /\ written = {}
    /\ Idle

SpecSame == InitSame /\ [][Next]_vars

\* Decimal strings a and b of canonical form: int(a) < int(b).
NumLess(a, b) == Len(a) < Len(b) \/ (Len(a) = Len(b) /\ StrLess(a, b))

\* The position in processing order of the pull whose record has this id.
SynthesisIndex(id) == CHOOSE k \in DOMAIN emitted : emitted[k].rec_id = id

\* C15: the ids of a run are synthesized strictly increasing in processing
\* order, and of two records of the sorted list with equal timestamps the one
\* whose id was synthesized earlier comes first.
C15_TieBreakKeepsSynthesisOrder ==
    /\ \A k \in 1..(Len(emitted) - 1) :
          NumLess(emitted[k].rec_id, emitted[k + 1].rec_id)
    /\ V3Returned =>
          \A i, j \in DOMAIN uigf_v3.list :
              (i < j /\ uigf_v3.list[i]["time"] = uigf_v3.list[j]["time"])
              => SynthesisIndex(uigf_v3.list[i]["id"].v)
                   < SynthesisIndex(uigf_v3.list[j]["id"].v)

====
